---- MODULE Spec2Model ----
(***************************************************************************)
(* A model of terraform-simple-registry: the module package (version       *)
(* catalog over the tags of a git repository, tree-id resolution, tar      *)
(* serialisation) and the HTTP handler of terraform-modules-v1-server.     *)
(*                                                                         *)
(* Strings are TLA+ strings; Len, \o, SubSeq, Head and Tail act on them as *)
(* on Go strings (1-based).                                                *)
(***************************************************************************)
EXTENDS Integers, Sequences, FiniteSets, TLC

\* What earlier calls returned; described with the rest of the state.
VARIABLE seen

(***************************************************************************)
(* String helpers (package strings, strconv).                              *)
(***************************************************************************)
Char(s, i) == SubSeq(s, i, i)

From(s, i) == SubSeq(s, i, Len(s))

HasPrefix(s, p) == Len(s) >= Len(p) /\ SubSeq(s, 1, Len(p)) = p

HasSuffix(s, p) == Len(s) >= Len(p) /\ SubSeq(s, Len(s) - Len(p) + 1, Len(s)) = p

Digits == {"0", "1", "2", "3", "4", "5", "6", "7", "8", "9"}

Letters == {"a", "b", "c", "d", "e", "f", "g", "h", "i", "j", "k", "l", "m",
            "n", "o", "p", "q", "r", "s", "t", "u", "v", "w", "x", "y", "z",
            "A", "B", "C", "D", "E", "F", "G", "H", "I", "J", "K", "L", "M",
            "N", "O", "P", "Q", "R", "S", "T", "U", "V", "W", "X", "Y", "Z"}

\* The characters of the class [0-9A-Za-z\-~] in byte order.
ByteOrder == "-0123456789ABCDEFGHIJKLMNOPQRSTUVWXYZabcdefghijklmnopqrstuvwxyz~"

IdentClass == Digits \cup Letters \cup {"-", "~"}

AllIn(s, set) == \A i \in 1..Len(s) : Char(s, i) \in set

\* The position of the first occurrence of the character c in s, 0 if none.
IndexOf(s, c) ==
    IF \E i \in 1..Len(s) : Char(s, i) = c
    THEN CHOOSE i \in 1..Len(s) : Char(s, i) = c /\ \A j \in 1..(i - 1) : Char(s, j) # c
    ELSE 0

\* strings.Split(s, sep) for a one-character separator.
RECURSIVE Split(_, _)
Split(s, sep) ==
    LET i == IndexOf(s, sep)
    IN  IF i = 0 THEN <<s>>
        ELSE <<SubSeq(s, 1, i - 1)>> \o Split(From(s, i + 1), sep)

\* strings.Join(parts, sep).
RECURSIVE Join(_, _)
Join(parts, sep) ==
    IF Len(parts) = 0 THEN ""
    ELSE IF Len(parts) = 1 THEN parts[1]
    ELSE parts[1] \o sep \o Join(Tail(parts), sep)

DigitVal(c) == IndexOf("0123456789", c) - 1

\* The value of a nonempty string of decimal digits (leading zeros allowed).
RECURSIVE DigitsVal(_)
DigitsVal(s) ==
    IF Len(s) = 0 THEN 0
    ELSE 10 * DigitsVal(SubSeq(s, 1, Len(s) - 1)) + DigitVal(Char(s, Len(s)))

\* strconv.ParseInt(s, 10, 64): an optional sign followed by digits.
ParseIntOk(s) ==
    LET body == IF Len(s) > 0 /\ Char(s, 1) \in {"-", "+"} THEN From(s, 2) ELSE s
    IN  Len(body) > 0 /\ AllIn(body, Digits)

ParseIntVal(s) ==
    IF Len(s) > 0 /\ Char(s, 1) = "-" THEN 0 - DigitsVal(From(s, 2))
    ELSE IF Len(s) > 0 /\ Char(s, 1) = "+" THEN DigitsVal(From(s, 2))
    ELSE DigitsVal(s)

\* strconv.FormatInt(n, 10) for n >= 0.
RECURSIVE FormatInt(_)
FormatInt(n) ==
    IF n < 10 THEN Char("0123456789", n + 1)
    ELSE FormatInt(n \div 10) \o Char("0123456789", (n % 10) + 1)

\* Go's s > t on strings: bytewise lexicographic order.
RECURSIVE StrGreater(_, _)
StrGreater(s, t) ==
    IF Len(s) = 0 THEN FALSE
    ELSE IF Len(t) = 0 THEN TRUE
    ELSE IF Char(s, 1) = Char(t, 1) THEN StrGreater(Tail(s), Tail(t))
    ELSE IndexOf(ByteOrder, Char(s, 1)) > IndexOf(ByteOrder, Char(t, 1))

(***************************************************************************)
(* github.com/hashicorp/go-version, as the module package uses it:         *)
(* NewVersion, String, Compare/LessThan/Equal.                             *)
(***************************************************************************)
NoVersion == [ok |-> FALSE, segments |-> <<>>, pre |-> "", metadata |-> ""]

NoEmptyPart(parts) == \A i \in 1..Len(parts) : Len(parts[i]) > 0

\* Dot-separated, nonempty identifiers over [0-9A-Za-z\-~].
ValidIdents(s) == AllIn(s, IdentClass \cup {"."}) /\ NoEmptyPart(Split(s, "."))

\* The length of the longest prefix of s made of digits and dots.
NumPrefixLen(s) ==
    IF \E i \in 1..Len(s) : Char(s, i) \notin (Digits \cup {"."})
    THEN (CHOOSE i \in 1..Len(s) :
            /\ Char(s, i) \notin (Digits \cup {"."})
            /\ \A j \in 1..(i - 1) : Char(s, j) \in (Digits \cup {"."})) - 1
    ELSE Len(s)

PadSegments(segs) ==
    IF Len(segs) >= 3 THEN segs
    ELSE segs \o [i \in 1..(3 - Len(segs)) |-> 0]

\* The prerelease group of the match: what follows the numbers, without the
\* dash that introduces it.
Prerelease(rest) ==
    IF Len(rest) = 0 THEN ""
    ELSE IF Char(rest, 1) = "-" /\ Len(rest) >= 2 /\ Char(rest, 2) \in IdentClass
    THEN From(rest, 2)
    ELSE rest

PrereleaseOk(rest) ==
    Len(rest) = 0
      \/ (Char(rest, 1) \in (Letters \cup {"-", "~"}) /\ ValidIdents(Prerelease(rest)))

\* The version of a match: parts are the number strings, rest the text after
\* them, meta the text after the plus sign (hasMeta: there is one).
VersionOf(parts, rest, hasMeta, meta) ==
    IF /\ NoEmptyPart(parts)
       /\ PrereleaseOk(rest)
       /\ (hasMeta => (Len(meta) > 0 /\ ValidIdents(meta)))
    THEN [ok |-> TRUE,
          segments |-> PadSegments([i \in 1..Len(parts) |-> DigitsVal(parts[i])]),
          pre |-> Prerelease(rest),
          metadata |-> meta]
    ELSE NoVersion

\* main is the text before the plus sign, n the length of its numbers.
ParseMain(main, n, hasMeta, meta) ==
    IF n = 0 THEN NoVersion
    ELSE VersionOf(Split(SubSeq(main, 1, n), "."), From(main, n + 1), hasMeta, meta)

\* s is the string without its optional leading v, plus the place of its
\* first plus sign.
ParseAt(s, plus) ==
    IF plus = 0 THEN ParseMain(s, NumPrefixLen(s), FALSE, "")
    ELSE ParseMain(SubSeq(s, 1, plus - 1), NumPrefixLen(SubSeq(s, 1, plus - 1)),
                   TRUE, From(s, plus + 1))

ParseStripped(s) == ParseAt(s, IndexOf(s, "+"))

\* version.NewVersion: the string must match
\*   ^v?([0-9]+(\.[0-9]+)*?)(-pre|-?pre)?(\+meta)?$
\* and its numbers are parsed as integers and padded with zeros to three.
NewVersion(str) ==
    ParseStripped(IF HasPrefix(str, "v") THEN From(str, 2) ELSE str)

\* Version.String: the canonical rendering.
String(v) ==
    Join([i \in 1..Len(v.segments) |-> FormatInt(v.segments[i])], ".")
      \o (IF v.pre # "" THEN "-" \o v.pre ELSE "")
      \o (IF v.metadata # "" THEN "+" \o v.metadata ELSE "")

comparePart(preSelf, preOther) ==
    LET selfNumeric  == ParseIntOk(preSelf)
        otherNumeric == ParseIntOk(preOther)
        selfInt      == IF selfNumeric THEN ParseIntVal(preSelf) ELSE 0
        otherInt     == IF otherNumeric THEN ParseIntVal(preOther) ELSE 0
    IN  IF preSelf = preOther THEN 0
        ELSE IF preSelf = "" THEN (IF otherNumeric THEN -1 ELSE 1)
        ELSE IF preOther = "" THEN (IF selfNumeric THEN 1 ELSE -1)
        ELSE IF selfNumeric /\ ~otherNumeric THEN -1
        ELSE IF ~selfNumeric /\ otherNumeric THEN 1
        ELSE IF ~selfNumeric /\ ~otherNumeric /\ StrGreater(preSelf, preOther) THEN 1
        ELSE IF selfInt > otherInt THEN 1
        ELSE -1

RECURSIVE comparePartsFrom(_, _, _)
comparePartsFrom(ps, po, i) ==
    LET biggestLen == IF Len(ps) > Len(po) THEN Len(ps) ELSE Len(po)
        partSelf   == IF i <= Len(ps) THEN ps[i] ELSE ""
        partOther  == IF i <= Len(po) THEN po[i] ELSE ""
        c          == comparePart(partSelf, partOther)
    IN  IF i > biggestLen THEN 0
        ELSE IF c # 0 THEN c
        ELSE comparePartsFrom(ps, po, i + 1)

comparePrereleases(v, other) ==
    IF v = other THEN 0
    ELSE comparePartsFrom(Split(v, "."), Split(other, "."), 1)

allZero(segs) == \A i \in 1..Len(segs) : segs[i] = 0

\* The loop of Version.Compare over segments of possibly different lengths.
RECURSIVE compareSegmentsFrom(_, _, _)
compareSegmentsFrom(ss, so, i) ==
    LET hS == IF Len(ss) < Len(so) THEN Len(so) ELSE Len(ss)
    IN  IF i > hS THEN 0
        ELSE IF i > Len(ss)
             THEN (IF ~allZero(SubSeq(so, i, Len(so))) THEN -1 ELSE 0)
        ELSE IF i > Len(so)
             THEN (IF ~allZero(SubSeq(ss, i, Len(ss))) THEN 1 ELSE 0)
        ELSE IF ss[i] = so[i] THEN compareSegmentsFrom(ss, so, i + 1)
        ELSE IF ss[i] < so[i] THEN -1
        ELSE 1

\* Version.Compare: -1, 0 or 1; build metadata is not compared.
Compare(v, other) ==
    IF String(v) = String(other) THEN 0
    ELSE IF v.segments = other.segments
         THEN IF v.pre = "" /\ other.pre = "" THEN 0
              ELSE IF v.pre = "" THEN 1
              ELSE IF other.pre = "" THEN -1
              ELSE comparePrereleases(v.pre, other.pre)
    ELSE compareSegmentsFrom(v.segments, other.segments, 1)

LessThan(v, other) == Compare(v, other) < 0

Equal(v, other) == Compare(v, other) = 0

(***************************************************************************)
(* The git object database behind the repositories (git2go / libgit2).     *)
(* Object ids are short hexadecimal strings.  An id that is not in the     *)
(* domain of Objects is an object that cannot be read: the tree dddd under *)
(* cc33 and the blob beef under ee44 are such objects.                     *)
(***************************************************************************)
TreeEntry(name, type, id, filemode) ==
    [Name |-> name, Type |-> type, Id |-> id, Filemode |-> filemode]

\* git.Filemode values, written in decimal: 0100644, 0100755, 040000, 0160000.
FilemodeBlob == 33188

FilemodeBlobExecutable == 33261

FilemodeTree == 16384

FilemodeCommit == 57344

\* Mode 0755 of a directory header.
DirMode == 493

Objects ==
    [id \in {"c1", "c2", "c3", "c4", "c5", "c6", "a1", "aa11", "bb22", "cc33",
             "ee44", "ff55", "d0d0", "9a9a", "7b7b", "f1", "f2", "f3"} |->
        CASE id = "c1" -> [type |-> "commit", tree |-> "aa11", when |-> 100]
          [] id = "c2" -> [type |-> "commit", tree |-> "bb22", when |-> 200]
          [] id = "c3" -> [type |-> "commit", tree |-> "aa11", when |-> 300]
          [] id = "c4" -> [type |-> "commit", tree |-> "cc33", when |-> 400]
          [] id = "c5" -> [type |-> "commit", tree |-> "ee44", when |-> 500]
          [] id = "c6" -> [type |-> "commit", tree |-> "ff55", when |-> 600]
          [] id = "a1" -> [type |-> "tag", target |-> "c1"]
          [] id = "aa11" -> [type |-> "tree", entries |->
                 << TreeEntry("main.tf", "blob", "f1", FilemodeBlob) >>]
          [] id = "bb22" -> [type |-> "tree", entries |->
                 << TreeEntry("bin", "tree", "d0d0", FilemodeTree),
                    TreeEntry("ext", "commit", "c1", FilemodeCommit),
                    TreeEntry("main.tf", "blob", "f2", FilemodeBlob) >>]
          [] id = "cc33" -> [type |-> "tree", entries |->
                 << TreeEntry("docs", "tree", "dddd", FilemodeTree),
                    TreeEntry("main.tf", "blob", "f1", FilemodeBlob) >>]
          [] id = "ee44" -> [type |-> "tree", entries |->
                 << TreeEntry("a.tf", "blob", "beef", FilemodeBlob),
                    TreeEntry("main.tf", "blob", "f1", FilemodeBlob) >>]
          [] id = "ff55" -> [type |-> "tree", entries |->
                 << TreeEntry("mod", "tree", "9a9a", FilemodeTree) >>]
          [] id = "9a9a" -> [type |-> "tree", entries |->
                 << TreeEntry("sub", "tree", "7b7b", FilemodeTree),
                    TreeEntry("x.tf", "blob", "f1", FilemodeBlob) >>]
          [] id = "7b7b" -> [type |-> "tree", entries |->
                 << TreeEntry("y.tf", "blob", "f2", FilemodeBlob) >>]
          [] id = "d0d0" -> [type |-> "tree", entries |->
                 << TreeEntry("run.sh", "blob", "f3", FilemodeBlobExecutable) >>]
          [] id = "f1" -> [type |-> "blob", contents |-> "a"]
          [] id = "f2" -> [type |-> "blob", contents |-> "bb"]
          [] id = "f3" -> [type |-> "blob", contents |-> "#!"]]

(***************************************************************************)
(* A repository on disk: whether git.OpenRepository succeeds, its          *)
(* references in the order the reference-name iterator reports them, and   *)
(* how the iterator fails: newIterErr when NewReferenceNameIterator        *)
(* fails, failAfter = k >= 0 when Next fails after reporting k names       *)
(* (-1: Next reports every name and then ErrIterOver).                     *)
(***************************************************************************)
Repository(openable, newIterErr, failAfter, refs) ==
    [openable |-> openable, newIterErr |-> newIterErr, failAfter |-> failAfter,
     refs |-> refs]

Ref(name, target) == [name |-> name, target |-> target]

\* The names Next reports before the loop ends, and whether it ends in an error.
Reported(repo) ==
    IF repo.failAfter < 0 THEN repo.refs ELSE SubSeq(repo.refs, 1, repo.failAfter)

IterFails(repo) == repo.failAfter >= 0

(***************************************************************************)
(* package module                                                          *)
(***************************************************************************)
TagPrefix == "refs/tags/v"

\* A variant of TagVersion that takes every tag for a version tag, with or
\* without the v.
TagVersionAnyTag(name) ==
    IF HasPrefix(name, "refs/tags/") THEN NewVersion(From(name, 11)) ELSE NoVersion

\* The loop body of AllVersions and HasVersion: the version a reference name
\* stands for, NoVersion when it is no version tag.
TagVersion(name) ==
    IF HasPrefix(name, TagPrefix) THEN NewVersion(From(name, 12)) ELSE NoVersion

\* sort.Slice on at most 12 elements is an insertion sort;
\* less(i, j) is ret[j].LessThan(ret[i]).
RECURSIVE insertionStep(_, _)
insertionStep(ret, j) ==
    IF j > 1 /\ LessThan(ret[j - 1], ret[j])
    THEN insertionStep([ret EXCEPT ![j] = ret[j - 1], ![j - 1] = ret[j]], j - 1)
    ELSE ret

RECURSIVE insertionSort(_, _)
insertionSort(ret, i) ==
    IF i > Len(ret) THEN ret ELSE insertionSort(insertionStep(ret, i), i + 1)

SortSlice(ret) == insertionSort(ret, 2)

\* The versions appended to ret, in iteration order.
RECURSIVE CollectVersions(_)
CollectVersions(names) ==
    IF Len(names) = 0 THEN <<>>
    ELSE LET v == TagVersion(names[1].name)
         IN  (IF v.ok THEN <<v>> ELSE <<>>) \o CollectVersions(Tail(names))

\* Module.AllVersions: (versions, err).
AllVersions(repo) ==
    IF repo.newIterErr \/ IterFails(repo)
    THEN [versions |-> <<>>, err |-> TRUE]
    ELSE [versions |-> SortSlice(CollectVersions(repo.refs)), err |-> FALSE]

\* A variant of LatestOf that returns the last element of the list.
LatestOfLast(all) ==
    IF all.err THEN [version |-> NoVersion, isNil |-> TRUE, err |-> TRUE]
    ELSE IF Len(all.versions) = 0
    THEN [version |-> NoVersion, isNil |-> TRUE, err |-> FALSE]
    ELSE [version |-> all.versions[Len(all.versions)], isNil |-> FALSE, err |-> FALSE]

\* Module.LatestVersion: (version or nil, err).
LatestOf(all) ==
    IF all.err THEN [version |-> NoVersion, isNil |-> TRUE, err |-> TRUE]
    ELSE IF Len(all.versions) = 0
    THEN [version |-> NoVersion, isNil |-> TRUE, err |-> FALSE]
    ELSE [version |-> all.versions[1], isNil |-> FALSE, err |-> FALSE]

LatestVersion(repo) == LatestOf(AllVersions(repo))

\* A variant of GotEqual that compares the canonical strings.
GotSameString(gotV, v) == gotV.ok /\ String(gotV) = String(v)

\* The test of HasVersion's loop body: gotV parsed and gotV.Equal(v).
GotEqual(gotV, v) == gotV.ok /\ Equal(gotV, v)

\* Module.HasVersion: (bool, err).  The loop returns at the first match,
\* before a later Next can fail.
HasVersionAmong(repo, names, v) ==
    IF repo.newIterErr THEN [has |-> FALSE, err |-> TRUE]
    ELSE IF \E i \in 1..Len(names) : GotEqual(TagVersion(names[i].name), v)
    THEN [has |-> TRUE, err |-> FALSE]
    ELSE IF IterFails(repo) THEN [has |-> FALSE, err |-> TRUE]
    ELSE [has |-> FALSE, err |-> FALSE]

HasVersion(repo, v) == HasVersionAmong(repo, Reported(repo), v)

\* ref.Peel(git.ObjectCommit): follows annotated tags to a commit.
RECURSIVE Peel(_)
Peel(id) ==
    IF id \notin DOMAIN Objects THEN [err |-> "odb", commit |-> ""]
    ELSE IF Objects[id].type = "commit" THEN [err |-> "", commit |-> id]
    ELSE IF Objects[id].type = "tag" THEN Peel(Objects[id].target)
    ELSE [err |-> "peel", commit |-> ""]

\* repo.References.Lookup(refName) and ref.Peel.
LookupAndPeel(repo, found) ==
    IF found = {} THEN [err |-> "notfound", commit |-> ""]
    ELSE Peel(repo.refs[CHOOSE i \in found : TRUE].target)

RefsNamed(repo, refName) == {i \in 1..Len(repo.refs) : repo.refs[i].name = refName}

\* The places of the version tags that compare equal to v.
TagsEqualTo(repo, v) ==
    {i \in 1..Len(repo.refs) : GotEqual(TagVersion(repo.refs[i].name), v)}

\* A variant of getVersionCommit that finds the tag the way HasVersion
\* does: the first reference reported whose version compares equal to v.
getVersionCommitFirstEqual(repo, v) ==
    IF TagsEqualTo(repo, v) = {} THEN [err |-> "notfound", commit |-> ""]
    ELSE Peel(repo.refs[CHOOSE i \in TagsEqualTo(repo, v) :
                           \A j \in TagsEqualTo(repo, v) : i <= j].target)

\* Module.getVersionCommit: (commit, err); err is "" for nil.
getVersionCommit(repo, v) == LookupAndPeel(repo, RefsNamed(repo, "refs/tags/v" \o String(v)))

TreeIdOf(c) ==
    IF c.err # "" THEN [treeId |-> "", err |-> c.err]
    ELSE [treeId |-> Objects[c.commit].tree, err |-> ""]

\* A variant of GetVersionTreeId that answers from the first resolution
\* made, whatever the version.
GetVersionTreeIdCached(repo, v) ==
    IF seen.tree.op = "GetVersionTreeId" THEN seen.tree.ret
    ELSE TreeIdOf(getVersionCommit(repo, v))

\* Module.GetVersionTreeId: (tree id, err).
GetVersionTreeId(repo, v) == TreeIdOf(getVersionCommit(repo, v))

TarHeader(name, mode, typeflag, size, modTime) ==
    [Name |-> name, Mode |-> mode, Typeflag |-> typeflag, Size |-> size,
     ModTime |-> modTime, AccessTime |-> modTime, ChangeTime |-> modTime]

\* A variant of TarEntry that writes no contents.
TarEntryEmpty(header, data) == [header |-> header, data |-> ""]

\* One entry of the tar stream: a header and the bytes written after it.
TarEntry(header, data) == [header |-> header, data |-> data]

\* What a walk has written and whether it returned an error.
NoEntries == [written |-> <<>>, err |-> FALSE]

\* m.repo.LookupTree(id) and m.repo.LookupBlob(id) succeed.
TreeReadable(id) == id \in DOMAIN Objects /\ Objects[id].type = "tree"

BlobReadable(id) == id \in DOMAIN Objects /\ Objects[id].type = "blob"

\* A variant of DirEntry that stamps directories with the zero time.
DirEntryUnstamped(newPrefix, modTime) ==
    TarEntry(TarHeader(newPrefix, DirMode, "dir", 0, 0), "")

\* The header written for a directory.
DirEntry(newPrefix, modTime) ==
    TarEntry(TarHeader(newPrefix, DirMode, "dir", 0, modTime), "")

\* A variant of writeTree that writes the header of a directory after its
\* contents.
writeTreeContentsFirst(hdr, readable, sub, rest) ==
    IF ~readable THEN [written |-> <<hdr>> \o rest.written, err |-> rest.err]
    ELSE IF sub.err THEN [written |-> sub.written \o <<hdr>>, err |-> TRUE]
    ELSE [written |-> sub.written \o <<hdr>> \o rest.written, err |-> rest.err]

\* case git.ObjectTree: the header is written, then LookupTree; when it
\* fails the loop continues with the next entry, otherwise the subtree is
\* walked (sub) and its error returned, and the loop goes on (rest).
writeTree(hdr, readable, sub, rest) ==
    IF ~readable THEN [written |-> <<hdr>> \o rest.written, err |-> rest.err]
    ELSE IF sub.err THEN [written |-> <<hdr>> \o sub.written, err |-> TRUE]
    ELSE [written |-> <<hdr>> \o sub.written \o rest.written, err |-> rest.err]

\* case git.ObjectBlob: LookupBlob, whose error is returned, then the
\* header and the contents.
writeBlob(entry, prefix, modTime, rest) ==
    IF ~BlobReadable(entry.Id) THEN [written |-> <<>>, err |-> TRUE]
    ELSE [written |->
             <<TarEntry(TarHeader(prefix \o entry.Name, entry.Filemode, "reg",
                                  Len(Objects[entry.Id].contents), modTime),
                        Objects[entry.Id].contents)>> \o rest.written,
          err |-> rest.err]

\* A variant of writeOther that writes a directory header for the entry.
writeOtherAsDir(entry, prefix, modTime, rest) ==
    [written |-> <<DirEntry(prefix \o entry.Name \o "/", modTime)>> \o rest.written,
     err |-> rest.err]

\* An entry that is neither a tree nor a blob matches no case of the switch.
writeOther(entry, prefix, modTime, rest) == rest

RECURSIVE writeGitTreeTar(_, _, _, _)
RECURSIVE writeEntry(_, _, _, _)

\* Module.writeGitTreeTar from entry i of the tree on:
\* (entries written, err).
writeGitTreeTar(treeId, prefix, modTime, i) ==
    IF i > Len(Objects[treeId].entries) THEN NoEntries
    ELSE writeEntry(Objects[treeId].entries[i], prefix, modTime,
                    writeGitTreeTar(treeId, prefix, modTime, i + 1))

\* The switch on entry.Type; rest is what the loop does after this entry.
writeEntry(entry, prefix, modTime, rest) ==
    IF entry.Type = "tree"
    THEN writeTree(DirEntry(prefix \o entry.Name \o "/", modTime),
                   TreeReadable(entry.Id),
                   IF TreeReadable(entry.Id)
                   THEN writeGitTreeTar(entry.Id, prefix \o entry.Name \o "/", modTime, 1)
                   ELSE NoEntries,
                   rest)
    ELSE IF entry.Type = "blob" THEN writeBlob(entry, prefix, modTime, rest)
    ELSE writeOther(entry, prefix, modTime, rest)

\* The tar stream of a commit: commit.Tree() and the walk from the root.
\* The deferred tw.Close() writes the end-of-archive trailer on every return.
TarOfTree(w) == [written |-> w.written, trailer |-> TRUE, err |-> w.err]

TarOfCommit(c) ==
    IF c.err # "" THEN [written |-> <<>>, trailer |-> TRUE, err |-> TRUE]
    ELSE IF Objects[c.commit].tree \notin DOMAIN Objects
    THEN [written |-> <<>>, trailer |-> TRUE, err |-> TRUE]
    ELSE TarOfTree(writeGitTreeTar(Objects[c.commit].tree, "", Objects[c.commit].when, 1))

\* Module.WriteVersionTar: what reaches the writer and the error returned.
WriteVersionTar(repo, v) == TarOfCommit(getVersionCommit(repo, v))

(***************************************************************************)
(* Configuration (package config): Modules maps namespace, name and        *)
(* provider to a module's GitDir and DeclRange; Hostname is the friendly   *)
(* hostname.                                                               *)
(***************************************************************************)
DirAws == "/srv/git/widget-aws.git"

DirAzure == "/srv/git/widget-azure.git"

ModuleConfig(gitDir, declRange) == [GitDir |-> gitDir, DeclRange |-> declRange]

Modules ==
    [ns \in {"acme"} |->
        [name \in {"widget"} |->
            [provider \in {"aws", "azure"} |->
                IF provider = "aws" THEN ModuleConfig(DirAws, "modules.conf:3,1-30")
                ELSE ModuleConfig(DirAzure, "modules.conf:7,1-32")]]]

Hostname == "registry.example.com"

(***************************************************************************)
(* The HTTP handler (makeHandler).  A response is the status written, the  *)
(* headers the handler set, and the body written; with it go the lines     *)
(* logged and the git directories module.Load was called on.               *)
(***************************************************************************)
NoHeaders == <<>>

NoBody == <<>>

Response(status, headers, body, log, opened) ==
    [status |-> status, headers |-> headers, body |-> body, log |-> log,
     opened |-> opened]

\* wr.WriteHeader(status); return
\* A variant of StatusOnly that sends the logged lines as the body.
StatusWithCause(status, log, opened) == Response(status, NoHeaders, log, log, opened)

StatusOnly(status, log, opened) == Response(status, NoHeaders, NoBody, log, opened)

\* json.MarshalIndent(value) written with wr.Write: status 200.
JSONBody(value, log, opened) ==
    Response(200, NoHeaders, <<[json |-> value]>>, log, opened)

apiModule(namespace, name, provider, v) ==
    [id |-> namespace \o "/" \o name \o "/" \o provider \o "/" \o String(v),
     namespace |-> namespace, name |-> name, provider |-> provider,
     version |-> String(v)]

LogOpenFailed(cfg) ==
    "failed to open git repository at " \o cfg.GitDir
        \o " for module configured at " \o cfg.DeclRange

\* The path segments after the leading slash.
PathSegments(path) == Tail(Split(path, "/"))

\* The mux router: the first registered route whose pattern matches.
RouteOfSegments(segs, n) ==
    IF \E i \in 1..n : segs[i] = "" THEN "none"
    ELSE IF n = 2 THEN "providers"
    ELSE IF n = 3 THEN "latest"
    ELSE IF n = 4 /\ segs[4] = "versions" THEN "versions"
    ELSE IF n = 5 /\ segs[5] = "download" THEN "location"
    ELSE IF n = 6 /\ segs[5] = "download" THEN "archive"
    ELSE IF n = 4 THEN "exact"
    ELSE "none"

RouteOf(path) ==
    IF ~HasPrefix(path, "/") THEN "none"
    ELSE RouteOfSegments(PathSegments(path), Len(PathSegments(path)))

\* The three lookups every handler starts with: byNamespace, byName, cfg.
NameConfigured(modules, vars) ==
    /\ vars.namespace \in DOMAIN modules
    /\ vars.name \in DOMAIN modules[vars.namespace]

ProviderConfigured(modules, vars) ==
    /\ NameConfigured(modules, vars)
    /\ vars.provider \in DOMAIN modules[vars.namespace][vars.name]

ConfigOf(modules, vars) == modules[vars.namespace][vars.name][vars.provider]

\* Route /{namespace}/{name}: the loop body for one provider, given the
\* result of LatestVersion on its repository.
SummaryOf(cfg, vars, provider, latest) ==
    IF latest.err
    THEN [modules |-> <<>>,
          log |-> <<"failed to get latest version for " \o cfg.DeclRange>>,
          opened |-> {cfg.GitDir}]
    ELSE IF latest.isNil
    THEN [modules |-> <<>>, log |-> <<>>, opened |-> {cfg.GitDir}]
    ELSE [modules |-> <<apiModule(vars.namespace, vars.name, provider, latest.version)>>,
          log |-> <<>>, opened |-> {cfg.GitDir}]

ProviderSummary(cfg, repos, vars, provider) ==
    IF ~repos[cfg.GitDir].openable
    THEN [modules |-> <<>>, log |-> <<LogOpenFailed(cfg)>>, opened |-> {cfg.GitDir}]
    ELSE SummaryOf(cfg, vars, provider, LatestVersion(repos[cfg.GitDir]))

ThenSummaries(first, rest) ==
    [modules |-> first.modules \o rest.modules, log |-> first.log \o rest.log,
     opened |-> first.opened \cup rest.opened]

\* The loop over the providers of a module, in the order the range over
\* the map visits them.
RECURSIVE ProviderSummaries(_, _, _, _)
ProviderSummaries(byName, repos, vars, order) ==
    IF Len(order) = 0 THEN [modules |-> <<>>, log |-> <<>>, opened |-> {}]
    ELSE ThenSummaries(ProviderSummary(byName[order[1]], repos, vars, order[1]),
                       ProviderSummaries(byName, repos, vars, Tail(order)))

\* A variant of ProvidersResponse that answers 500 when a provider failed.
ProvidersResponseOrError(r) ==
    IF r.log # <<>> THEN StatusOnly(500, r.log, r.opened)
    ELSE JSONBody([modules |-> r.modules], r.log, r.opened)

ProvidersResponse(r) == JSONBody([modules |-> r.modules], r.log, r.opened)

HandleProviders(modules, repos, vars, order) ==
    IF ~NameConfigured(modules, vars) THEN StatusOnly(404, <<>>, {})
    ELSE ProvidersResponse(
           ProviderSummaries(modules[vars.namespace][vars.name], repos, vars, order))

\* Route /{namespace}/{name}/{provider}
LatestResponse(cfg, vars, latest) ==
    IF latest.err
    THEN StatusOnly(500, <<"failed to get latest version for " \o cfg.DeclRange>>,
                    {cfg.GitDir})
    ELSE IF latest.isNil THEN StatusOnly(404, <<>>, {cfg.GitDir})
    ELSE JSONBody(apiModule(vars.namespace, vars.name, vars.provider, latest.version),
                  <<>>, {cfg.GitDir})

LatestFor(cfg, repos, vars) ==
    IF ~repos[cfg.GitDir].openable
    THEN StatusOnly(500, <<LogOpenFailed(cfg)>>, {cfg.GitDir})
    ELSE LatestResponse(cfg, vars, LatestVersion(repos[cfg.GitDir]))

HandleLatest(modules, repos, vars) ==
    IF ~ProviderConfigured(modules, vars) THEN StatusOnly(404, <<>>, {})
    ELSE LatestFor(ConfigOf(modules, vars), repos, vars)

\* A variant of VersionsResponse that answers 404 when there is no version.
VersionsResponseOrNotFound(cfg, vars, all) ==
    IF all.err
    THEN StatusOnly(500, <<"failed to get all versions for " \o cfg.DeclRange>>,
                    {cfg.GitDir})
    ELSE IF Len(all.versions) = 0 THEN StatusOnly(404, <<>>, {cfg.GitDir})
    ELSE JSONBody(
           [modules |-> <<
               [source |-> Hostname \o "/" \o vars.namespace \o "/" \o vars.name
                               \o "/" \o vars.provider,
                versions |-> [i \in 1..Len(all.versions) |->
                                 [version |-> String(all.versions[i])]]] >>],
           <<>>, {cfg.GitDir})

\* Route /{namespace}/{name}/{provider}/versions
VersionsResponse(cfg, vars, all) ==
    IF all.err
    THEN StatusOnly(500, <<"failed to get all versions for " \o cfg.DeclRange>>,
                    {cfg.GitDir})
    ELSE JSONBody(
           [modules |-> <<
               [source |-> Hostname \o "/" \o vars.namespace \o "/" \o vars.name
                               \o "/" \o vars.provider,
                versions |-> [i \in 1..Len(all.versions) |->
                                 [version |-> String(all.versions[i])]]] >>],
           <<>>, {cfg.GitDir})

VersionsFor(cfg, repos, vars) ==
    IF ~repos[cfg.GitDir].openable
    THEN StatusOnly(500, <<LogOpenFailed(cfg)>>, {cfg.GitDir})
    ELSE VersionsResponse(cfg, vars, AllVersions(repos[cfg.GitDir]))

HandleVersions(modules, repos, vars) ==
    IF ~ProviderConfigured(modules, vars) THEN StatusOnly(404, <<>>, {})
    ELSE VersionsFor(ConfigOf(modules, vars), repos, vars)

\* A variant of LocationOf without the suffix.
LocationBare(treeId) == "./download/" \o treeId

\* The value of the X-Terraform-Get header.
LocationOf(treeId) == "./download/" \o treeId \o ".tgz"

\* Route /{namespace}/{name}/{provider}/{version}/download
DownloadResponse(cfg, v, exists, tree) ==
    IF exists.err
    THEN StatusOnly(500, <<"failed to check version " \o String(v) \o " for "
                               \o cfg.DeclRange>>, {cfg.GitDir})
    ELSE IF ~exists.has THEN StatusOnly(404, <<>>, {cfg.GitDir})
    ELSE IF tree.err # ""
    THEN StatusOnly(404, <<"failed to get tree id for version " \o String(v)
                               \o " of " \o cfg.DeclRange>>, {cfg.GitDir})
    ELSE Response(200,
                  ("Content-Type" :> "text/plain")
                      @@ ("X-Terraform-Get" :> LocationOf(tree.treeId)),
                  NoBody, <<>>, {cfg.GitDir})

DownloadFor(cfg, repos, v) ==
    IF ~v.ok THEN StatusOnly(404, <<>>, {})
    ELSE IF ~repos[cfg.GitDir].openable
    THEN StatusOnly(500, <<LogOpenFailed(cfg)>>, {cfg.GitDir})
    ELSE DownloadResponse(cfg, v, HasVersion(repos[cfg.GitDir], v),
                          GetVersionTreeId(repos[cfg.GitDir], v))

HandleDownload(modules, repos, vars) ==
    IF ~ProviderConfigured(modules, vars) THEN StatusOnly(404, <<>>, {})
    ELSE DownloadFor(ConfigOf(modules, vars), repos, NewVersion(vars.version))

\* Route /{namespace}/{name}/{provider}/{version}/download/{treeId}
StripTgz(givenTreeId) ==
    IF HasSuffix(givenTreeId, ".tgz")
    THEN SubSeq(givenTreeId, 1, Len(givenTreeId) - 4)
    ELSE givenTreeId

\* A variant of TreeIdMatches that accepts the id of any tree of the store.
TreeIdKnown(givenTreeId, treeId) ==
    /\ StripTgz(givenTreeId) \in DOMAIN Objects
    /\ Objects[StripTgz(givenTreeId)].type = "tree"

\* The suffix is ignored, then givenTreeId != treeId is a 404.
TreeIdMatches(givenTreeId, treeId) == StripTgz(givenTreeId) = treeId

\* The response once the store is open: exists and tree are the results of
\* HasVersion and GetVersionTreeId, tar what WriteVersionTar writes into the
\* gzip writer, which is closed after it.
DownloadTreeResponse(cfg, vars, v, exists, tree, tar) ==
    IF exists.err
    THEN StatusOnly(500, <<"failed to check version " \o String(v) \o " for "
                               \o cfg.DeclRange>>, {cfg.GitDir})
    ELSE IF ~exists.has THEN StatusOnly(404, <<>>, {cfg.GitDir})
    ELSE IF tree.err # ""
    THEN StatusOnly(404, <<"failed to get tree id for version " \o String(v)
                               \o " of " \o cfg.DeclRange>>, {cfg.GitDir})
    ELSE IF ~TreeIdMatches(vars.treeId, tree.treeId)
    THEN StatusOnly(404, <<"wrong tree id given for version " \o String(v)
                               \o " of " \o cfg.DeclRange>>, {cfg.GitDir})
    ELSE Response(200,
                  ("Content-Type" :> "application/x-gzip")
                      @@ ("Content-Disposition" :>
                            "attachment; filename=" \o vars.namespace \o "_"
                               \o vars.name \o "_" \o vars.provider \o "_"
                               \o String(v) \o ".tgz"),
                  <<[gzip |-> [written |-> tar.written, trailer |-> tar.trailer],
                     closed |-> TRUE]>>,
                  <<>>, {cfg.GitDir})

\* A variant of DownloadTreeFor that loads the module before it looks at
\* the version.
DownloadTreeForLoadFirst(cfg, repos, vars, v) ==
    IF ~repos[cfg.GitDir].openable
    THEN StatusOnly(500, <<LogOpenFailed(cfg)>>, {cfg.GitDir})
    ELSE IF ~v.ok THEN StatusOnly(404, <<>>, {cfg.GitDir})
    ELSE DownloadTreeResponse(cfg, vars, v, HasVersion(repos[cfg.GitDir], v),
                              GetVersionTreeId(repos[cfg.GitDir], v),
                              WriteVersionTar(repos[cfg.GitDir], v))

DownloadTreeFor(cfg, repos, vars, v) ==
    IF ~v.ok THEN StatusOnly(404, <<>>, {})
    ELSE IF ~repos[cfg.GitDir].openable
    THEN StatusOnly(500, <<LogOpenFailed(cfg)>>, {cfg.GitDir})
    ELSE DownloadTreeResponse(cfg, vars, v, HasVersion(repos[cfg.GitDir], v),
                              GetVersionTreeId(repos[cfg.GitDir], v),
                              WriteVersionTar(repos[cfg.GitDir], v))

HandleDownloadTree(modules, repos, vars) ==
    IF ~ProviderConfigured(modules, vars) THEN StatusOnly(404, <<>>, {})
    ELSE DownloadTreeFor(ConfigOf(modules, vars), repos, vars, NewVersion(vars.version))

\* Route /{namespace}/{name}/{provider}/{version}
VersionResponse(cfg, vars, v, exists) ==
    IF exists.err
    THEN StatusOnly(500, <<"failed to check version " \o String(v) \o " for "
                               \o cfg.DeclRange>>, {cfg.GitDir})
    ELSE IF ~exists.has THEN StatusOnly(404, <<>>, {cfg.GitDir})
    ELSE JSONBody(apiModule(vars.namespace, vars.name, vars.provider, v),
                  <<>>, {cfg.GitDir})

VersionFor(cfg, repos, vars, v) ==
    IF ~v.ok THEN StatusOnly(404, <<>>, {})
    ELSE IF ~repos[cfg.GitDir].openable
    THEN StatusOnly(500, <<LogOpenFailed(cfg)>>, {cfg.GitDir})
    ELSE VersionResponse(cfg, vars, v, HasVersion(repos[cfg.GitDir], v))

HandleVersion(modules, repos, vars) ==
    IF ~ProviderConfigured(modules, vars) THEN StatusOnly(404, <<>>, {})
    ELSE VersionFor(ConfigOf(modules, vars), repos, vars, NewVersion(vars.version))

\* mux.Vars(req) for the path segments of a matched route.
SegmentAt(segs, i) == IF i <= Len(segs) THEN segs[i] ELSE ""

VarsOf(segs) ==
    [namespace |-> SegmentAt(segs, 1), name |-> SegmentAt(segs, 2),
     provider |-> SegmentAt(segs, 3), version |-> SegmentAt(segs, 4),
     treeId |-> SegmentAt(segs, 6)]

Vars(path) == VarsOf(PathSegments(path))

Dispatch(modules, repos, route, vars, order) ==
    CASE route = "providers" -> HandleProviders(modules, repos, vars, order)
      [] route = "latest"    -> HandleLatest(modules, repos, vars)
      [] route = "versions"  -> HandleVersions(modules, repos, vars)
      [] route = "location"  -> HandleDownload(modules, repos, vars)
      [] route = "archive"   -> HandleDownloadTree(modules, repos, vars)
      [] route = "exact"     -> HandleVersion(modules, repos, vars)
      [] OTHER               -> Response(404, NoHeaders, <<"404 page not found">>, <<>>, {})

\* The handler makeHandler returns, serving one request.  order is the
\* order in which the range over a providers map visits its keys.
Serve(modules, repos, path, order) ==
    Dispatch(modules, repos, RouteOf(path), Vars(path), order)

(***************************************************************************)
(* What a client does with a download location: the X-Terraform-Get value  *)
(* is a relative reference, resolved against the path it was requested at  *)
(* (RFC 3986, section 5.2: drop the last segment of the base, append the   *)
(* reference, remove "." segments).                                        *)
(***************************************************************************)
RECURSIVE RemoveDots(_)
RemoveDots(segs) ==
    IF Len(segs) = 0 THEN <<>>
    ELSE IF segs[1] = "." THEN RemoveDots(Tail(segs))
    ELSE <<segs[1]>> \o RemoveDots(Tail(segs))

DropLast(segs) == SubSeq(segs, 1, Len(segs) - 1)

ResolveReference(base, ref) ==
    Join(RemoveDots(DropLast(Split(base, "/")) \o Split(ref, "/")), "/")

(***************************************************************************)
(* Bounds and input sets.                                                  *)
(***************************************************************************)
\* The most references a repository of the module specification holds.
MaxRefs == 3

\* The most references the served repository holds.
MaxTags == 2

\* Next fails after reporting at most this many names.
MaxFailAfter == 1

\* Reference names of the module specification.
RefNames ==
    {"refs/tags/v1.0.0", "refs/tags/v1.0", "refs/tags/v1.2.0", "refs/tags/v1.0.0-beta",
     "refs/tags/v1.0.0+b1", "refs/tags/vbogus", "refs/tags/1.5.0", "refs/heads/v3.0.0"}

\* Versions asked for in the module specification.
AskedVersions ==
    {NewVersion(s) : s \in {"1.0.0", "1.0", "1.2.0", "1.0.0-beta", "1.0.0+b2", "3.0.0"}}

\* References of the module specification: every name, on one commit.
ModuleRefs == {Ref(n, "c1") : n \in RefNames}

\* References of the served repository: lightweight and annotated tags on
\* commits, a tag on a blob, and a tag whose object cannot be read.
TagRefs ==
    {Ref("refs/tags/v1.0.0", "c1"), Ref("refs/tags/v1.0.0", "a1"),
     Ref("refs/tags/v1.0.0", "dead"),
     Ref("refs/tags/v1.2.0", "c2"), Ref("refs/tags/v1.2.0", "f1"),
     Ref("refs/tags/v1.2.0", "c5"),
     Ref("refs/tags/v1.0", "c1"), Ref("refs/tags/v1.0", "c3")}

\* Sequences of at most max of the given references, with distinct names.
RefLists(given, max) ==
    UNION {{refs \in [1..k -> given] :
              \A i, j \in 1..k : i # j => refs[i].name # refs[j].name} : k \in 0..max}

\* The repositories built on the reference lists: one that cannot be opened,
\* and for each list the ways its iterator behaves.
Repositories(lists) ==
    {Repository(FALSE, FALSE, -1, <<>>), Repository(TRUE, TRUE, -1, <<>>)}
      \cup {Repository(TRUE, FALSE, k, refs) : k \in -1..MaxFailAfter, refs \in lists}

ValidRepository(repo) == repo.failAfter <= Len(repo.refs)

AzureRepositories ==
    {Repository(TRUE, FALSE, -1, <<Ref("refs/tags/v2.0.0", "c2")>>),
     Repository(FALSE, FALSE, -1, <<>>)}

Coordinates ==
    {<<"acme", "widget", "aws">>, <<"acme", "widget", "azure">>,
     <<"other", "widget", "aws">>, <<"acme", "other", "aws">>,
     <<"acme", "widget", "other">>}

VersionStrings == {"1.0.0", "1.0", "1.2.0", "bogus"}

TreeIdStrings == {"aa11", "aa11.tgz", "bb22"}

\* Calls made in one behaviour of the archive specification.
MaxCalls == 3

\* Changes made to the tags of a repository behind the server's back in one
\* behaviour.
MaxMoves == 1

\* References of the archive specification: tags on commits with a flat
\* tree (c1, also through the annotated tag a1), a nested tree with a
\* submodule link (c2), a tree with an unreadable subtree (c4), a tree with
\* an unreadable blob (c5), a tree nested two levels deep (c6), a tag whose
\* object cannot be read, and the tag v2.0, whose version compares equal to
\* that of v2.0.0.
ArchiveRefs ==
    {Ref("refs/tags/v1.0.0", "c1"), Ref("refs/tags/v1.0.0", "a1"),
     Ref("refs/tags/v1.0.0", "c4"),
     Ref("refs/tags/v1.2.0", "c2"), Ref("refs/tags/v1.2.0", "c5"),
     Ref("refs/tags/v1.2.0", "dead"),
     Ref("refs/tags/v2.0.0", "c6"), Ref("refs/tags/v2.0", "c2")}

\* Versions asked for in the archive specification; each is absent from
\* the stores that lack its tag.
ArchiveVersions == {NewVersion(s) : s \in {"1.0.0", "1.2.0", "2.0"}}

\* The orders in which a range over the keys of a map may visit them.
Orders(keys) ==
    {o \in [1..Cardinality(keys) -> keys] : \A i, j \in DOMAIN o : i # j => o[i] # o[j]}

(***************************************************************************)
(* State: the repositories on disk by git directory, the last request and  *)
(* its response (server), the last call on the module package and what it  *)
(* returned (module specification), and what earlier calls returned: the   *)
(* number of calls made, and the first call of WriteVersionTar and of       *)
(* GetVersionTreeId with the number it had (archive specification).        *)
(***************************************************************************)
VARIABLES repos, req, resp, call

vars == <<repos, req, resp, call, seen>>

NoRequest == [path |-> "", order |-> <<>>, follows |-> ""]

NoResponse == StatusOnly(0, <<>>, {})

NoCall == [op |-> "", arg |-> NoVersion, ret |-> [err |-> FALSE]]

\* No list of providers was served yet.
NoList == [path |-> "", at |-> 0, resp |-> NoResponse]

NoneSeen ==
    [n |-> 0, tar |-> NoCall, tarAt |-> 0, repacked |-> FALSE, tree |-> NoCall,
     treeAt |-> 0, list |-> NoList]

OnDisk(aws, azure) == (DirAws :> aws) @@ (DirAzure :> azure)

Init ==
    /\ \E aws \in Repositories(RefLists(TagRefs, MaxTags)),
          azure \in AzureRepositories :
          /\ ValidRepository(aws)
          /\ repos = OnDisk(aws, azure)
    /\ req = NoRequest
    /\ resp = NoResponse
    /\ call = NoCall
    /\ seen = NoneSeen

\* One request served: the response, its log and the repositories opened.
Request(path, order, follows) ==
    /\ req' = [path |-> path, order |-> order, follows |-> follows]
    /\ resp' = Serve(Modules, repos, path, order)
    /\ UNCHANGED <<repos, call, seen>>

ProviderOrders(namespace, name) ==
    IF namespace \in DOMAIN Modules /\ name \in DOMAIN Modules[namespace]
    THEN Orders(DOMAIN Modules[namespace][name])
    ELSE {<<>>}

ListProviders ==
    /\ req = NoRequest
    /\ \E c \in Coordinates : \E order \in ProviderOrders(c[1], c[2]) :
        Request("/" \o c[1] \o "/" \o c[2], order, "")

GetModuleLatest ==
    /\ req = NoRequest
    /\ \E c \in Coordinates :
        Request("/" \o c[1] \o "/" \o c[2] \o "/" \o c[3], <<>>, "")

ListVersions ==
    /\ req = NoRequest
    /\ \E c \in Coordinates :
        Request("/" \o c[1] \o "/" \o c[2] \o "/" \o c[3] \o "/versions", <<>>, "")

GetDownloadLocation ==
    /\ req = NoRequest
    /\ \E c \in Coordinates, v \in VersionStrings :
        Request("/" \o c[1] \o "/" \o c[2] \o "/" \o c[3] \o "/" \o v \o "/download",
                <<>>, "")

GetDownloadArchive ==
    /\ req = NoRequest
    /\ \E c \in Coordinates, v \in VersionStrings, t \in TreeIdStrings :
        Request("/" \o c[1] \o "/" \o c[2] \o "/" \o c[3] \o "/" \o v \o "/download/" \o t,
                <<>>, "")

GetModuleVersion ==
    /\ req = NoRequest
    /\ \E c \in Coordinates, v \in VersionStrings :
        Request("/" \o c[1] \o "/" \o c[2] \o "/" \o c[3] \o "/" \o v, <<>>, "")

Followed(target, strip) == IF strip THEN StripTgz(target) ELSE target

\* The client follows the location it was given, with the .tgz suffix the
\* server sent or without it.
FollowLocation ==
    /\ RouteOf(req.path) = "location"
    /\ resp.status = 200
    /\ "X-Terraform-Get" \in DOMAIN resp.headers
    /\ \E strip \in BOOLEAN :
         Request(Followed(ResolveReference(req.path, resp.headers["X-Terraform-Get"]), strip),
                 <<>>, req.path)

\* The exchange is over; the handler keeps nothing of it.
Finish ==
    /\ req # NoRequest
    /\ req' = NoRequest
    /\ resp' = NoResponse
    /\ UNCHANGED <<repos, call, seen>>

Next ==
    \/ ListProviders
    \/ GetModuleLatest
    \/ ListVersions
    \/ GetDownloadLocation
    \/ GetDownloadArchive
    \/ GetModuleVersion
    \/ FollowLocation
    \/ Finish

Spec == Init /\ [][Next]_vars

(***************************************************************************)
(* The module specification: the operations of package module called on    *)
(* one repository, whose references are drawn from RefNames in every       *)
(* iteration order.                                                        *)
(***************************************************************************)
InitModule ==
    /\ \E aws \in Repositories(RefLists(ModuleRefs, MaxRefs)) :
          /\ ValidRepository(aws)
          /\ aws.openable
          /\ repos = OnDisk(aws, Repository(FALSE, FALSE, -1, <<>>))
    /\ req = NoRequest
    /\ resp = NoResponse
    /\ call = NoCall
    /\ seen = NoneSeen

Call(op, arg, ret) ==
    /\ call = NoCall
    /\ call' = [op |-> op, arg |-> arg, ret |-> ret]
    /\ UNCHANGED <<repos, req, resp, seen>>

CallAllVersions == Call("AllVersions", NoVersion, AllVersions(repos[DirAws]))

CallLatestVersion == Call("LatestVersion", NoVersion, LatestVersion(repos[DirAws]))

CallHasVersion == \E v \in AskedVersions : Call("HasVersion", v, HasVersion(repos[DirAws], v))

CallGetVersionTreeId ==
    \E v \in AskedVersions : Call("GetVersionTreeId", v, GetVersionTreeId(repos[DirAws], v))

\* The call has returned.
Return ==
    /\ call # NoCall
    /\ call' = NoCall
    /\ UNCHANGED <<repos, req, resp, seen>>

NextModule ==
    \/ CallAllVersions
    \/ CallLatestVersion
    \/ CallHasVersion
    \/ CallGetVersionTreeId
    \/ Return

SpecModule == InitModule /\ [][NextModule]_vars

(***************************************************************************)
(* The providers specification: the route /{namespace}/{name} requested    *)
(* repeatedly on unchanged repositories, between other requests.  The      *)
(* first list served is remembered.                                        *)
(***************************************************************************)
ProvidersRequest(path, order) ==
    /\ req = NoRequest
    /\ seen.n < MaxCalls
    /\ req' = [path |-> path, order |-> order, follows |-> ""]
    /\ resp' = Serve(Modules, repos, path, order)
    /\ seen' = IF RouteOf(path) = "providers" /\ seen.list = NoList
               THEN [seen EXCEPT !.n = seen.n + 1,
                                 !.list = [path |-> path, at |-> seen.n + 1,
                                           resp |-> resp']]
               ELSE [seen EXCEPT !.n = seen.n + 1]
    /\ UNCHANGED <<repos, call>>

ProvidersList ==
    \E c \in Coordinates : \E order \in ProviderOrders(c[1], c[2]) :
        ProvidersRequest("/" \o c[1] \o "/" \o c[2], order)

ProvidersListVersions ==
    \E c \in Coordinates :
        ProvidersRequest("/" \o c[1] \o "/" \o c[2] \o "/" \o c[3] \o "/versions", <<>>)

NextProviders ==
    \/ ProvidersList
    \/ ProvidersListVersions
    \/ Finish

SpecProviders == Init /\ [][NextProviders]_vars

(***************************************************************************)
(* The archive specification: WriteVersionTar and GetVersionTreeId called  *)
(* repeatedly on one repository whose references and objects stay the      *)
(* same while the order in which the references are reported changes,      *)
(* between other calls.                                                    *)
(***************************************************************************)
InitArchive ==
    /\ \E refs \in RefLists(ArchiveRefs, MaxTags) :
          repos = OnDisk(Repository(TRUE, FALSE, -1, refs),
                         Repository(FALSE, FALSE, -1, <<>>))
    /\ req = NoRequest
    /\ resp = NoResponse
    /\ call = NoCall
    /\ seen = NoneSeen

\* A call is made and remembered if it is the first of its operation.
ArchiveCall(op, arg, ret) ==
    /\ call = NoCall
    /\ seen.n < MaxCalls
    /\ call' = [op |-> op, arg |-> arg, ret |-> ret]
    /\ seen' = IF op = "WriteVersionTar" /\ seen.tar = NoCall
               THEN [seen EXCEPT !.n = seen.n + 1, !.tar = call', !.tarAt = seen.n + 1]
               ELSE IF op = "GetVersionTreeId" /\ seen.tree = NoCall
               THEN [seen EXCEPT !.n = seen.n + 1, !.tree = call', !.treeAt = seen.n + 1]
               ELSE [seen EXCEPT !.n = seen.n + 1]
    /\ UNCHANGED <<repos, req, resp>>

ArchiveWriteVersionTar ==
    \E v \in ArchiveVersions :
        ArchiveCall("WriteVersionTar", v, WriteVersionTar(repos[DirAws], v))

ArchiveGetVersionTreeId ==
    \E v \in ArchiveVersions :
        ArchiveCall("GetVersionTreeId", v, GetVersionTreeId(repos[DirAws], v))

ArchiveHasVersion ==
    \E v \in ArchiveVersions :
        ArchiveCall("HasVersion", v, HasVersion(repos[DirAws], v))

\* The call has returned.
ArchiveReturn ==
    /\ call # NoCall
    /\ call' = NoCall
    /\ UNCHANGED <<repos, req, resp, seen>>

\* The same sequence in another order.
Reordered(refs) ==
    {r \in [1..Len(refs) -> {refs[i] : i \in 1..Len(refs)}] :
        /\ r # refs
        /\ \A i, j \in 1..Len(refs) : i # j => r[i] # r[j]}

\* The references are repacked between two calls (git pack-refs, git gc):
\* the store holds the same references with the same targets, and the
\* reference-name iterator reports them in another order.  It is
\* remembered that this happened after the first WriteVersionTar call.
PackRefs ==
    /\ call = NoCall
    /\ \E refs \in Reordered(repos[DirAws].refs) :
          repos' = [repos EXCEPT ![DirAws].refs = refs]
    /\ seen' = [seen EXCEPT !.repacked = seen.repacked \/ seen.tar # NoCall]
    /\ UNCHANGED <<req, resp, call>>

NextArchive ==
    \/ PackRefs
    \/ ArchiveWriteVersionTar
    \/ ArchiveGetVersionTreeId
    \/ ArchiveHasVersion
    \/ ArchiveReturn

SpecArchive == InitArchive /\ [][NextArchive]_vars
(***************************************************************************)
(* Properties of package module, stated on the call that has just returned *)
(* (specification SpecModule).                                             *)
(***************************************************************************)
Store == repos[DirAws]

\* Reference enumeration runs to its end without an error.
EnumerationSucceeds(repo) == ~repo.newIterErr /\ ~IterFails(repo)

\* The places of the references named refs/tags/v<s> whose <s> parses.
VersionTags(repo) ==
    {i \in 1..Len(repo.refs) :
        /\ HasPrefix(repo.refs[i].name, "refs/tags/v")
        /\ NewVersion(From(repo.refs[i].name, 12)).ok}

\* versions holds one entry for each version tag and nothing else.
ExactlyTheTags(repo, versions) ==
    \E p \in [1..Len(versions) -> VersionTags(repo)] :
        /\ \A i, j \in 1..Len(versions) : i # j => p[i] # p[j]
        /\ \A t \in VersionTags(repo) : \E i \in 1..Len(versions) : p[i] = t
        /\ \A i \in 1..Len(versions) :
              versions[i] = NewVersion(From(repo.refs[p[i]].name, 12))

\* C1: when the references can be enumerated, AllVersions returns no error
\* and exactly the versions of the references refs/tags/v<s> whose <s>
\* parses, one entry per such reference: other references and unparseable
\* tags contribute nothing, and a store without version tags gives the
\* empty list.
C1_AllVersionsExactlyTheTags ==
    (call.op = "AllVersions" /\ EnumerationSucceeds(Store))
        => (~call.ret.err /\ ExactlyTheTags(Store, call.ret.versions))

\* AllVersions has returned one version from a store that also holds an
\* unparseable tag and a tag without the v.
C1_Witness ==
    /\ call.op = "AllVersions"
    /\ EnumerationSucceeds(Store)
    /\ Len(call.ret.versions) = 1
    /\ \E i \in 1..Len(Store.refs) : Store.refs[i].name = "refs/tags/vbogus"
    /\ \E i \in 1..Len(Store.refs) : Store.refs[i].name = "refs/tags/1.5.0"

StrictlyDescending(versions) ==
    \A k \in 1..(Len(versions) - 1) : Compare(versions[k], versions[k + 1]) > 0

\* C2: the list AllVersions returns is strictly descending by precedence:
\* every entry is greater than the entry after it, so no two entries
\* compare equal.
C2_StrictlyDescending ==
    (call.op = "AllVersions" /\ ~call.ret.err) => StrictlyDescending(call.ret.versions)

\* ret is what LatestVersion returned, all what AllVersions returns on the
\* same store.
LatestAgrees(ret, all) ==
    /\ ret.err <=> all.err
    /\ (ret.isNil /\ ~ret.err) <=> (~all.err /\ Len(all.versions) = 0)
    /\ ~ret.isNil =>
          /\ ret.version = all.versions[1]
          /\ \A k \in 1..Len(all.versions) : ~LessThan(ret.version, all.versions[k])

\* C3: LatestVersion returns the first element of AllVersions, which no
\* listed version exceeds; it returns nil without an error exactly when
\* AllVersions is empty, and an error exactly when AllVersions returns one.
C3_LatestIsFirst ==
    call.op = "LatestVersion" => LatestAgrees(call.ret, AllVersions(Store))

\* LatestVersion has returned the greatest of three versions that were
\* not enumerated in descending order.
C3_Witness ==
    /\ call.op = "LatestVersion"
    /\ ~call.ret.isNil
    /\ Len(Store.refs) = 3
    /\ String(call.ret.version) = "1.2.0"
    /\ Store.refs[3].name = "refs/tags/v1.2.0"
    /\ Store.refs[1].name = "refs/tags/v1.0.0-beta"

Listed(all, v) == \E k \in 1..Len(all.versions) : Equal(all.versions[k], v)

\* C4 as stated: HasVersion(v) is true exactly when AllVersions on the same
\* store holds an entry that compares equal to v.
C4_HasVersionIffListed ==
    call.op = "HasVersion" => (call.ret.has <=> Listed(AllVersions(Store), call.arg))

\* A version tag equal to v is among the names the iterator reports.
ReportedEqual(repo, v) ==
    \E i \in 1..Len(Reported(repo)) :
        /\ HasPrefix(Reported(repo)[i].name, "refs/tags/v")
        /\ NewVersion(From(Reported(repo)[i].name, 12)).ok
        /\ Compare(NewVersion(From(Reported(repo)[i].name, 12)), v) = 0

HasVersionAgrees(repo, v, ret) ==
    IF EnumerationSucceeds(repo)
    THEN ~ret.err /\ (ret.has <=> Listed(AllVersions(repo), v))
    ELSE IF repo.newIterErr THEN ret.err /\ ~ret.has
    ELSE (ret.has <=> ReportedEqual(repo, v)) /\ (ret.err <=> ~ret.has)

\* C4, amended: when the references can be enumerated, HasVersion(v) is
\* true exactly when AllVersions holds an entry that compares equal to v by
\* precedence, and false without an error otherwise.  When enumeration
\* fails on the way, HasVersion is still true if a tag equal to v was
\* reported before the failure, and returns the error if none was.
C4_HasVersionIffListedWhenEnumerable ==
    call.op = "HasVersion" => HasVersionAgrees(Store, call.arg, call.ret)

\* HasVersion has found 1.0.0+b2 in a store whose only equal tag is
\* v1.0.0+b1: equal by precedence, not as strings.
C4_Witness ==
    /\ call.op = "HasVersion"
    /\ EnumerationSucceeds(Store)
    /\ String(call.arg) = "1.0.0+b2"
    /\ call.ret.has
    /\ \E i \in 1..Len(Store.refs) : Store.refs[i].name = "refs/tags/v1.0.0+b1"
    /\ \A i \in 1..Len(Store.refs) : Store.refs[i].name # "refs/tags/v1.0.0"

(***************************************************************************)
(* Properties of the HTTP handler, stated on the request just served and   *)
(* its response (specification Spec).                                      *)
(***************************************************************************)
ReqRoute == RouteOf(req.path)

ReqVars == Vars(req.path)

ReqVersion == NewVersion(ReqVars.version)

ReqConfigured == ProviderConfigured(Modules, ReqVars)

\* The repository of the module the request names.
ReqStore == repos[ConfigOf(Modules, ReqVars).GitDir]

VersionRoutes == {"location", "archive", "exact"}

Found == [has |-> TRUE, err |-> FALSE]

\* The archive route was asked for a version the store has, and the tree
\* id of that version resolves.
ArchiveOfExisting ==
    /\ ReqRoute = "archive"
    /\ ReqConfigured
    /\ ReqVersion.ok
    /\ ReqStore.openable
    /\ HasVersion(ReqStore, ReqVersion) = Found
    /\ GetVersionTreeId(ReqStore, ReqVersion).err = ""

\* C5: the archive route answers 404 and streams nothing when the tree id
\* supplied for an existing version, with the .tgz suffix taken off, is not
\* the tree id resolved for that version, also when it is the tree id of
\* another version of the module.
C5_WrongTreeIdNotFound ==
    (ArchiveOfExisting
       /\ StripTgz(ReqVars.treeId) # GetVersionTreeId(ReqStore, ReqVersion).treeId)
        => (resp.status = 404 /\ resp.body = NoBody)

\* Version 1.0.0 was asked for with the tree id of version 1.2.0, and the
\* answer was 404.
C5_Witness ==
    /\ ArchiveOfExisting
    /\ ReqVars.version = "1.0.0"
    /\ ReqVars.treeId = "bb22"
    /\ GetVersionTreeId(ReqStore, ReqVersion).treeId = "aa11"
    /\ GetVersionTreeId(ReqStore, NewVersion("1.2.0")).treeId = "bb22"
    /\ resp.status = 404

\* A store without failures: it opens, its references can be enumerated,
\* and every reference peels to a commit.
HealthyStore(repo) ==
    /\ repo.openable
    /\ EnumerationSucceeds(repo)
    /\ \A i \in 1..Len(repo.refs) : Peel(repo.refs[i].target).err = ""

\* The location route was asked for a version that has a tag in a healthy
\* store.
LocationOfTagged ==
    /\ ReqRoute = "location"
    /\ ReqConfigured
    /\ ReqVersion.ok
    /\ HealthyStore(ReqStore)
    /\ ReportedEqual(ReqStore, ReqVersion)

\* The response is the gzip stream of the complete archive of the version.
StreamsArchive(r, tar) ==
    /\ r.status = 200
    /\ "Content-Type" \in DOMAIN r.headers
    /\ r.headers["Content-Type"] = "application/x-gzip"
    /\ ~tar.err
    /\ r.body = <<[gzip |-> [written |-> tar.written, trailer |-> TRUE], closed |-> TRUE]>>

\* C6: the two steps of a download succeed for every version that has a
\* tag: the location route answers 200 with a relative path, and the
\* archive route, asked at that path with or without the .tgz suffix,
\* answers 200 with the gzip stream of the version's archive.
C6_TwoStepDownload ==
    /\ LocationOfTagged =>
          /\ resp.status = 200
          /\ "X-Terraform-Get" \in DOMAIN resp.headers
          /\ HasPrefix(resp.headers["X-Terraform-Get"], "./download/")
    /\ req.follows # "" =>
          StreamsArchive(resp, WriteVersionTar(ReqStore, ReqVersion))

LocationSuccess ==
    /\ ReqRoute = "location"
    /\ resp.status = 200

\* The response has no body and exactly the two headers of the location
\* route, the second with the given value.
LocationResponse(r, location) ==
    /\ r.body = NoBody
    /\ DOMAIN r.headers = {"Content-Type", "X-Terraform-Get"}
    /\ r.headers["Content-Type"] = "text/plain"
    /\ r.headers["X-Terraform-Get"] = location

\* C7 as stated: a successful location response has no body, content type
\* text/plain and the header X-Terraform-Get with the value
\* ./download/<treeId>, without a suffix.
C7_LocationWithoutSuffix ==
    LocationSuccess =>
        LocationResponse(resp, "./download/" \o GetVersionTreeId(ReqStore, ReqVersion).treeId)

\* C7, amended: a successful location response has no body, content type
\* text/plain and the header X-Terraform-Get with the value
\* ./download/<treeId>.tgz, where <treeId> is the tree id resolved for the
\* version: the server appends the .tgz suffix.
C7_LocationWithSuffix ==
    LocationSuccess =>
        LocationResponse(resp,
            "./download/" \o GetVersionTreeId(ReqStore, ReqVersion).treeId \o ".tgz")

\* The location of version 1.2.0, whose tree is bb22, was served.
C7_Witness ==
    /\ LocationSuccess
    /\ ReqVars.version = "1.2.0"
    /\ resp.headers["X-Terraform-Get"] = "./download/bb22.tgz"

\* The request names a namespace, name or provider that is not configured,
\* or a version that does not parse.
Rejected ==
    \/ ReqRoute = "providers" /\ ~NameConfigured(Modules, ReqVars)
    \/ ReqRoute \in ({"latest", "versions"} \cup VersionRoutes) /\ ~ReqConfigured
    \/ ReqRoute \in VersionRoutes /\ ~ReqVersion.ok

\* C8: on every route, a request for an unconfigured namespace, name or
\* provider, or with a version that does not parse, is answered 404, never
\* 500, whatever the state of the repositories, and no repository is opened
\* for it.
C8_RejectedBeforeStore ==
    Rejected => (resp.status = 404 /\ resp.opened = {})

\* An unparseable version was asked of a configured module whose
\* repository cannot be opened, and the answer was 404.
C8_Witness ==
    /\ ReqRoute = "archive"
    /\ ReqConfigured
    /\ ~ReqVersion.ok
    /\ ~ReqStore.openable
    /\ resp.status = 404

\* The store fails under the request: it cannot be opened, the enumeration
\* of its references fails, or the tag of the version cannot be read down to
\* a commit.
StoreFailure ==
    \/ ~ReqStore.openable
    \/ ReqRoute \in {"latest", "versions"} /\ ~EnumerationSucceeds(ReqStore)
    \/ ReqRoute \in {"location", "archive"} /\ HasVersion(ReqStore, ReqVersion).err
    \/ /\ ReqRoute \in {"location", "archive"}
       /\ HasVersion(ReqStore, ReqVersion) = Found
       /\ GetVersionTreeId(ReqStore, ReqVersion).err \in {"odb", "peel"}

\* C9: on the latest, versions, location and archive routes, for a
\* configured module and a version that parses, every failure of the store
\* is answered 500.
C9_StoreFailureIs500 ==
    (/\ ReqRoute \in {"latest", "versions", "location", "archive"}
     /\ ReqConfigured
     /\ (ReqRoute \in VersionRoutes => ReqVersion.ok)
     /\ StoreFailure)
        => resp.status = 500

\* A configuration that differs from Modules only in the git directories
\* and the declaration ranges, and the same repositories at its directories.
AltDirAws == "/mnt/mirror/aws"

AltDirAzure == "/mnt/mirror/azure"

AltModules ==
    [ns \in {"acme"} |->
        [name \in {"widget"} |->
            [provider \in {"aws", "azure"} |->
                IF provider = "aws" THEN ModuleConfig(AltDirAws, "registry.hcl:12,1-28")
                ELSE ModuleConfig(AltDirAzure, "registry.hcl:40,1-30")]]]

AltOnDisk == (AltDirAws :> repos[DirAws]) @@ (AltDirAzure :> repos[DirAzure])

\* What the client sees of a response.
ClientView(r) == [status |-> r.status, headers |-> r.headers, body |-> r.body]

\* C10: a 404 or 500 response of the six routes is a bare status, without
\* headers and without a body, and it is the response the same request gets
\* under a configuration that differs only in git directories and
\* declaration ranges: neither reaches the client.
C10_ErrorsAreBare ==
    resp.status \in {404, 500} =>
        /\ DOMAIN resp.headers = {}
        /\ resp.body = NoBody
        /\ ClientView(Serve(AltModules, AltOnDisk, req.path, req.order)) = ClientView(resp)

\* A 500 was answered for a repository that cannot be opened, and the git
\* directory was logged.
C10_Witness ==
    /\ resp.status = 500
    /\ ReqRoute = "location"
    /\ ~ReqStore.openable
    /\ resp.log = <<LogOpenFailed(ConfigOf(Modules, ReqVars))>>

\* The providers of the module the request names whose repository opens and
\* has a latest version.
ListedProviders ==
    {p \in DOMAIN Modules[ReqVars.namespace][ReqVars.name] :
        /\ repos[Modules[ReqVars.namespace][ReqVars.name][p].GitDir].openable
        /\ EnumerationSucceeds(repos[Modules[ReqVars.namespace][ReqVars.name][p].GitDir])
        /\ VersionTags(repos[Modules[ReqVars.namespace][ReqVars.name][p].GitDir]) # {}}

ProviderStore(p) == repos[Modules[ReqVars.namespace][ReqVars.name][p].GitDir]

\* summaries holds one summary for each of the providers, with its latest
\* version, and nothing else.
OneSummaryEach(summaries, providers) ==
    /\ Len(summaries) = Cardinality(providers)
    /\ \A p \in providers : \E i \in 1..Len(summaries) :
          /\ summaries[i].provider = p
          /\ summaries[i].namespace = ReqVars.namespace
          /\ summaries[i].name = ReqVars.name
          /\ summaries[i].version = String(LatestVersion(ProviderStore(p)).version)
          /\ \A k \in 1..Len(AllVersions(ProviderStore(p)).versions) :
                Compare(NewVersion(summaries[i].version),
                        AllVersions(ProviderStore(p)).versions[k]) >= 0

\* C11: the list-providers route, for a configured namespace and name,
\* always answers 200 with a list that holds exactly one summary for each
\* provider whose repository opens and whose LatestVersion returns a
\* version, carrying that version; the other providers are left out, and
\* the list is empty when every provider fails.
C11_ProvidersListedOrOmitted ==
    (ReqRoute = "providers" /\ NameConfigured(Modules, ReqVars)) =>
        /\ resp.status = 200
        /\ Len(resp.body) = 1
        /\ OneSummaryEach(resp.body[1].json.modules, ListedProviders)

\* The list was served with one summary while the other provider's
\* repository failed and was logged.
C11_Witness ==
    /\ ReqRoute = "providers"
    /\ NameConfigured(Modules, ReqVars)
    /\ resp.status = 200
    /\ Len(resp.body[1].json.modules) = 1
    /\ Len(resp.log) = 1

\* The versions route was asked of a configured module whose repository
\* opens and whose references can be enumerated.
VersionsOfReadable ==
    /\ ReqRoute = "versions"
    /\ ReqConfigured
    /\ ReqStore.openable
    /\ EnumerationSucceeds(ReqStore)

\* The body is one module record whose versions are the strings of the
\* given versions, in their order.
VersionsBody(body, versions) ==
    /\ Len(body) = 1
    /\ Len(body[1].json.modules) = 1
    /\ body[1].json.modules[1].source
          = Hostname \o "/" \o ReqVars.namespace \o "/" \o ReqVars.name
               \o "/" \o ReqVars.provider
    /\ Len(body[1].json.modules[1].versions) = Len(versions)
    /\ \A i \in 1..Len(versions) :
          body[1].json.modules[1].versions[i].version = String(versions[i])

\* C18: the versions route, for a configured module whose store is
\* readable, answers 200 with a single module record whose versions are the
\* canonical strings of AllVersions in the same order, latest first; a
\* store without version tags gives 200 with an empty list, not 404.
C18_VersionsListed ==
    VersionsOfReadable =>
        /\ resp.status = 200
        /\ VersionsBody(resp.body, AllVersions(ReqStore).versions)
        /\ \A i \in 1..(Len(AllVersions(ReqStore).versions) - 1) :
              Compare(NewVersion(resp.body[1].json.modules[1].versions[i].version),
                      NewVersion(resp.body[1].json.modules[1].versions[i + 1].version)) >= 0

\* The versions of a store that reports v1.0.0 before v1.2.0 were served
\* as 1.2.0, 1.0.0.
C18_Witness ==
    /\ VersionsOfReadable
    /\ Len(ReqStore.refs) = 2
    /\ ReqStore.refs[1].name = "refs/tags/v1.0.0"
    /\ ReqStore.refs[2].name = "refs/tags/v1.2.0"
    /\ resp.status = 200
    /\ resp.body[1].json.modules[1].versions
          = <<[version |-> "1.2.0"], [version |-> "1.0.0"]>>

\* The archive route has started streaming and the serialization failed.
ArchiveFailedPartWay ==
    /\ ReqRoute = "archive"
    /\ resp.status = 200
    /\ WriteVersionTar(ReqStore, ReqVersion).err

\* C16: when the serialization of the archive fails part-way through an
\* archive request, the stream sent is left truncated: no end-of-archive
\* trailer is written and the compressed stream is not finished.
C16_FailedArchiveTruncated ==
    ArchiveFailedPartWay =>
        /\ ~resp.body[1].gzip.trailer
        /\ ~resp.body[1].closed

(***************************************************************************)
(* Properties of the archive, stated on the call that has just returned    *)
(* and the calls before it (specification SpecArchive).                    *)
(***************************************************************************)
\* WriteVersionTar has returned for a version whose tag resolves to a
\* commit; ArchiveRoot is the tree of that commit.
ArchiveCommit == getVersionCommit(Store, call.arg)

TarWritten ==
    /\ call.op = "WriteVersionTar"
    /\ ArchiveCommit.err = ""

ArchiveRoot == Objects[ArchiveCommit.commit].tree

RECURSIVE NoReadFailure(_)
\* Every subtree and every blob of the snapshot can be read.
NoReadFailure(treeId) ==
    \A i \in 1..Len(Objects[treeId].entries) :
        /\ Objects[treeId].entries[i].Type = "blob"
              => BlobReadable(Objects[treeId].entries[i].Id)
        /\ Objects[treeId].entries[i].Type = "tree"
              => /\ TreeReadable(Objects[treeId].entries[i].Id)
                 /\ NoReadFailure(Objects[treeId].entries[i].Id)

RECURSIVE SnapshotFiles(_, _)
RECURSIVE SnapshotDirs(_, _)
\* The files of a snapshot outside submodule links: path, mode bits, size
\* and contents.
SnapshotFiles(treeId, prefix) ==
    UNION {IF Objects[treeId].entries[i].Type = "blob"
              /\ BlobReadable(Objects[treeId].entries[i].Id)
           THEN {[Name |-> prefix \o Objects[treeId].entries[i].Name,
                  Mode |-> Objects[treeId].entries[i].Filemode,
                  Size |-> Len(Objects[Objects[treeId].entries[i].Id].contents),
                  Data |-> Objects[Objects[treeId].entries[i].Id].contents]}
           ELSE IF Objects[treeId].entries[i].Type = "tree"
                   /\ TreeReadable(Objects[treeId].entries[i].Id)
           THEN SnapshotFiles(Objects[treeId].entries[i].Id,
                              prefix \o Objects[treeId].entries[i].Name \o "/")
           ELSE {} : i \in 1..Len(Objects[treeId].entries)}

\* The paths of the directories of a snapshot.
SnapshotDirs(treeId, prefix) ==
    UNION {IF Objects[treeId].entries[i].Type # "tree" THEN {}
           ELSE IF ~TreeReadable(Objects[treeId].entries[i].Id)
           THEN {prefix \o Objects[treeId].entries[i].Name \o "/"}
           ELSE {prefix \o Objects[treeId].entries[i].Name \o "/"}
                  \cup SnapshotDirs(Objects[treeId].entries[i].Id,
                                    prefix \o Objects[treeId].entries[i].Name \o "/")
           : i \in 1..Len(Objects[treeId].entries)}

\* The places of the entries of a kind in what was written.
EntriesOf(written, typeflag) ==
    {i \in 1..Len(written) : written[i].header.Typeflag = typeflag}

FileOf(e) ==
    [Name |-> e.header.Name, Mode |-> e.header.Mode, Size |-> e.header.Size,
     Data |-> e.data]

\* written holds each file and each directory of the snapshot once, and
\* nothing else.
ExactlyTheSnapshot(written, treeId) ==
    /\ {FileOf(written[i]) : i \in EntriesOf(written, "reg")} = SnapshotFiles(treeId, "")
    /\ Cardinality(EntriesOf(written, "reg")) = Cardinality(SnapshotFiles(treeId, ""))
    /\ {written[i].header.Name : i \in EntriesOf(written, "dir")} = SnapshotDirs(treeId, "")
    /\ Cardinality(EntriesOf(written, "dir")) = Cardinality(SnapshotDirs(treeId, ""))
    /\ EntriesOf(written, "reg") \cup EntriesOf(written, "dir") = 1..Len(written)

\* C12: when nothing of the snapshot fails to be read, WriteVersionTar
\* returns no error and writes exactly the files and directories of the
\* snapshot outside submodule links: each file once, at its full path, with
\* its contents, its size and its recorded mode bits, and no other entry.
C12_ArchiveIsTheSnapshot ==
    (TarWritten /\ NoReadFailure(ArchiveRoot)) =>
        (~call.ret.err /\ ExactlyTheSnapshot(call.ret.written, ArchiveRoot))

\* The archive of the nested snapshot was written, with its executable
\* file.
C12_Witness ==
    /\ TarWritten
    /\ ArchiveRoot = "bb22"
    /\ Len(call.ret.written) = 3
    /\ \E i \in 1..3 :
          FileOf(call.ret.written[i])
             = [Name |-> "bin/run.sh", Mode |-> FilemodeBlobExecutable, Size |-> 2,
                Data |-> "#!"]

\* WriteVersionTar has returned for a version it was called with before.
TarRepeated ==
    /\ call.op = "WriteVersionTar"
    /\ seen.tar # NoCall
    /\ seen.tar.arg = call.arg

\* C13: two calls of WriteVersionTar for the same version on a store that
\* holds the same references and objects write the same stream (the same
\* entries in the same order, with the same paths, modes, sizes, times and
\* contents) and return the same error, whatever calls were made before or
\* between them and in whatever order the store reports its references at
\* either call.
C13_ArchiveDeterministic ==
    TarRepeated => call.ret = seen.tar.ret

\* The nested archive of version 2.0.0 was written a second time, after
\* another call had been made in between, on a store that also holds the
\* tag v2.0, reports it before the tag v2.0.0 and was repacked since the
\* first call.
C13_Witness ==
    /\ TarRepeated
    /\ seen.n >= seen.tarAt + 2
    /\ seen.repacked
    /\ Store.refs[1].name = "refs/tags/v2.0"
    /\ \E i \in 1..Len(Store.refs) : Store.refs[i].name = "refs/tags/v2.0"
    /\ call.arg = NewVersion("2.0")
    /\ Len(call.ret.written) = 4
    /\ ~call.ret.err

RECURSIVE LinkPaths(_, _)
\* The paths of the submodule links of a snapshot.
LinkPaths(treeId, prefix) ==
    UNION {IF Objects[treeId].entries[i].Type = "commit"
           THEN {prefix \o Objects[treeId].entries[i].Name}
           ELSE IF Objects[treeId].entries[i].Type = "tree"
                   /\ TreeReadable(Objects[treeId].entries[i].Id)
           THEN LinkPaths(Objects[treeId].entries[i].Id,
                          prefix \o Objects[treeId].entries[i].Name \o "/")
           ELSE {} : i \in 1..Len(Objects[treeId].entries)}

\* No entry of written is the link or lies under it.
NothingAt(written, link) ==
    \A i \in 1..Len(written) :
        /\ written[i].header.Name # link
        /\ ~HasPrefix(written[i].header.Name, link \o "/")

\* C14: submodule links are skipped: the archive has no entry for a link
\* and none under it, the link causes no error, and the other entries of
\* the snapshot are written as they are without it.
C14_SubmodulesSkipped ==
    (TarWritten /\ LinkPaths(ArchiveRoot, "") # {}) =>
        /\ \A link \in LinkPaths(ArchiveRoot, "") : NothingAt(call.ret.written, link)
        /\ NoReadFailure(ArchiveRoot) =>
              (~call.ret.err /\ ExactlyTheSnapshot(call.ret.written, ArchiveRoot))

\* The archive of the snapshot with the link ext was written: the entry
\* after the link, main.tf, follows the directory before it.
C14_Witness ==
    /\ TarWritten
    /\ LinkPaths(ArchiveRoot, "") = {"ext"}
    /\ ~call.ret.err
    /\ Len(call.ret.written) = 3
    /\ call.ret.written[2].header.Name = "bin/run.sh"
    /\ call.ret.written[3].header.Name = "main.tf"

\* The paths a walk reaches before its first read failure, and whether
\* there is one.
NoneReached == [paths |-> {}, failed |-> FALSE]

ThenReached(first, rest) ==
    IF first.failed THEN first
    ELSE [paths |-> first.paths \cup rest.paths, failed |-> rest.failed]

RECURSIVE ReachedFrom(_, _, _)
RECURSIVE ReachedAt(_, _)
ReachedFrom(treeId, prefix, i) ==
    IF i > Len(Objects[treeId].entries) THEN NoneReached
    ELSE ThenReached(ReachedAt(Objects[treeId].entries[i], prefix),
                     ReachedFrom(treeId, prefix, i + 1))

ReachedAt(entry, prefix) ==
    IF entry.Type = "tree"
    THEN IF ~TreeReadable(entry.Id)
         THEN [paths |-> {prefix \o entry.Name \o "/"}, failed |-> TRUE]
         ELSE ThenReached([paths |-> {prefix \o entry.Name \o "/"}, failed |-> FALSE],
                          ReachedFrom(entry.Id, prefix \o entry.Name \o "/", 1))
    ELSE IF entry.Type = "blob"
    THEN IF ~BlobReadable(entry.Id) THEN [paths |-> {}, failed |-> TRUE]
         ELSE [paths |-> {prefix \o entry.Name}, failed |-> FALSE]
    ELSE NoneReached

\* C15: when a subtree or a blob of the snapshot cannot be read,
\* WriteVersionTar returns an error and has written no entry that comes
\* after the failure in the order of the walk.
C15_ReadFailureAborts ==
    (TarWritten /\ ~NoReadFailure(ArchiveRoot)) =>
        /\ call.ret.err
        /\ \A i \in 1..Len(call.ret.written) :
              call.ret.written[i].header.Name \in ReachedFrom(ArchiveRoot, "", 1).paths

\* The object id peels to the commit c: it is c, or an annotated tag of c.
PeelsTo(id, c) ==
    /\ id \in DOMAIN Objects
    /\ c \in DOMAIN Objects
    /\ Objects[c].type = "commit"
    /\ \/ id = c
       \/ Objects[id].type = "tag" /\ Objects[id].target = c

\* treeId is the tree of the commit that refs/tags/v<canonical string of v>
\* peels to.
TreeOfCanonicalTag(repo, v, treeId) ==
    \E i \in 1..Len(repo.refs) : \E c \in DOMAIN Objects :
        /\ repo.refs[i].name = "refs/tags/v" \o String(v)
        /\ PeelsTo(repo.refs[i].target, c)
        /\ Objects[c].tree = treeId

\* GetVersionTreeId has returned for a version it was called with before.
TreeIdRepeated ==
    /\ call.op = "GetVersionTreeId"
    /\ seen.tree # NoCall
    /\ seen.tree.arg = call.arg

\* C17: GetVersionTreeId depends on the store only: a call for a version
\* it was called with before returns what it returned then, whatever calls
\* were made in between and in whatever order the store reports its
\* references, and a tree id it returns is the tree of the commit
\* that refs/tags/v<canonical version string> peels to; it returns one
\* whenever that tag peels to a commit.
C17_TreeIdOfStoreOnly ==
    /\ TreeIdRepeated => call.ret = seen.tree.ret
    /\ call.op = "GetVersionTreeId" =>
          /\ call.ret.err = "" => TreeOfCanonicalTag(Store, call.arg, call.ret.treeId)
          /\ (\E t \in {"aa11", "bb22", "cc33", "ee44", "ff55"} :
                 TreeOfCanonicalTag(Store, call.arg, t)) => call.ret.err = ""

\* The tree id of the annotated tag v1.0.0 was resolved a second time,
\* after another call had been made in between.
C17_Witness ==
    /\ TreeIdRepeated
    /\ seen.n >= seen.treeAt + 2
    /\ call.ret = [treeId |-> "aa11", err |-> ""]
    /\ \E i \in 1..Len(Store.refs) : Store.refs[i] = Ref("refs/tags/v1.0.0", "a1")

\* The paths of the directories above a path: its proper prefixes that end
\* in a slash.
AncestorDirs(name) ==
    {SubSeq(name, 1, k) : k \in {k \in 1..(Len(name) - 1) : Char(name, k) = "/"}}

\* Entry i of written comes after a directory entry for each directory
\* above it.
AncestorsPrecede(written, i) ==
    \A d \in AncestorDirs(written[i].header.Name) :
        \E j \in 1..(i - 1) :
            /\ written[j].header.Typeflag = "dir"
            /\ written[j].header.Name = d

\* A directory entry has a path ending in a slash, the mode 0755, and
\* comes before every other entry below its path.
DirectoryLeads(written, i) ==
    /\ HasSuffix(written[i].header.Name, "/")
    /\ written[i].header.Mode = DirMode
    /\ \A j \in 1..Len(written) :
          (j # i /\ HasPrefix(written[j].header.Name, written[i].header.Name))
             => i < j

\* C19: in what WriteVersionTar writes, each directory entry has a path
\* ending in a slash and mode 0755 and precedes every entry below it, every
\* entry is preceded by a directory entry for each of its ancestor
\* directories, and when the call returns no error every directory of
\* the snapshot has an entry.
C19_DirectoriesBeforeDescendants ==
    TarWritten =>
        /\ \A i \in 1..Len(call.ret.written) : AncestorsPrecede(call.ret.written, i)
        /\ \A i \in EntriesOf(call.ret.written, "dir") :
              DirectoryLeads(call.ret.written, i)
        /\ ~call.ret.err =>
              SnapshotDirs(ArchiveRoot, "")
                 = {call.ret.written[i].header.Name :
                       i \in EntriesOf(call.ret.written, "dir")}

\* The archive of the snapshot nested two levels deep was written: both
\* directories first, then the file below them, then the file of the outer
\* directory.
C19_Witness ==
    /\ TarWritten
    /\ ArchiveRoot = "ff55"
    /\ ~call.ret.err
    /\ [i \in 1..Len(call.ret.written) |-> call.ret.written[i].header.Name]
          = <<"mod/", "mod/sub/", "mod/sub/y.tf", "mod/x.tf">>
    /\ call.ret.written[2].header.Mode = DirMode

\* C20: every entry WriteVersionTar writes, directory or file, carries in
\* each of its three time fields the committer time of the commit the
\* version's tag resolves to.
C20_OneCommitTimestamp ==
    TarWritten =>
        \A i \in 1..Len(call.ret.written) :
            /\ call.ret.written[i].header.ModTime = Objects[ArchiveCommit.commit].when
            /\ call.ret.written[i].header.AccessTime = Objects[ArchiveCommit.commit].when
            /\ call.ret.written[i].header.ChangeTime = Objects[ArchiveCommit.commit].when

\* The two-level archive was written with the time of its commit on the
\* inner directory and on the file inside it.
C20_Witness ==
    /\ TarWritten
    /\ ArchiveCommit.commit = "c6"
    /\ Len(call.ret.written) = 4
    /\ call.ret.written[2].header.Typeflag = "dir"
    /\ call.ret.written[2].header.ModTime = 600
    /\ call.ret.written[3].header.Typeflag = "reg"
    /\ call.ret.written[3].header.ModTime = 600


\* A list of providers has been served for a path one was served for
\* before.
ListRepeated ==
    /\ RouteOf(req.path) = "providers"
    /\ seen.list # NoList
    /\ seen.list.path = req.path

\* C21: two requests for the providers of the same module, on the
\* unchanged configuration and repositories, get the same response, the
\* module summaries in the same order.
C21_ProvidersOrderDeterministic ==
    ListRepeated => resp.body = seen.list.resp.body


\* The version strings the versions route reports for a store.
ReportedVersions(repo) ==
    {String(AllVersions(repo).versions[k]) : k \in 1..Len(AllVersions(repo).versions)}

\* The location route was asked, on a healthy store, for a version string
\* the versions route reports or a version HasVersion finds.
LocationOfReported ==
    /\ ReqRoute = "location"
    /\ ReqConfigured
    /\ ReqVersion.ok
    /\ HealthyStore(ReqStore)
    /\ \/ ReqVars.version \in ReportedVersions(ReqStore)
       \/ HasVersion(ReqStore, ReqVersion) = Found

\* C22: on a healthy store, for every version string the versions route
\* reports and every version HasVersion finds, GetVersionTreeId succeeds
\* and the location route answers 200 with a download path, never 404.
C22_ReportedIsDownloadable ==
    LocationOfReported =>
        /\ GetVersionTreeId(ReqStore, ReqVersion).err = ""
        /\ resp.status = 200
        /\ "X-Terraform-Get" \in DOMAIN resp.headers
        /\ resp.headers["X-Terraform-Get"]
              = LocationOf(GetVersionTreeId(ReqStore, ReqVersion).treeId)


(***************************************************************************)
(* The race specification: the route                                       *)
(* /{namespace}/{name}/{provider}/{version}/download/{treeId} served one   *)
(* call into package module at a time, while tags of the repository are    *)
(* moved or deleted by another process.  Each call reads the references    *)
(* as they are when it is made; call holds the last one made and its       *)
(* result until the handler has written its response.                      *)
(***************************************************************************)
InitRace == InitArchive

RacePaths ==
    {"/acme/widget/aws/" \o v \o "/download/" \o t :
        v \in {"1.0.0", "1.2.0", "bogus"}, t \in TreeIdStrings}

\* The handler up to its first call into the store: the lookups in the
\* configuration, NewVersion and module.Load, then mod.HasVersion(v).
BeginsWithStore(path) ==
    /\ ProviderConfigured(Modules, Vars(path))
    /\ NewVersion(Vars(path).version).ok
    /\ repos[ConfigOf(Modules, Vars(path)).GitDir].openable

HandlerHasVersion ==
    /\ req = NoRequest
    /\ \E path \in RacePaths :
         /\ req' = [path |-> path, order |-> <<>>, follows |-> ""]
         /\ IF BeginsWithStore(path)
            THEN /\ call' = [op |-> "HasVersion", arg |-> NewVersion(Vars(path).version),
                             ret |-> HasVersion(repos[ConfigOf(Modules, Vars(path)).GitDir],
                                                NewVersion(Vars(path).version))]
                 /\ resp' = NoResponse
            ELSE /\ call' = NoCall
                 /\ resp' = Serve(Modules, repos, path, <<>>)
    /\ UNCHANGED <<repos, seen>>

\* exists, err := mod.HasVersion(v) has returned: the handler answers 500
\* or 404, or goes on to mod.GetVersionTreeId(v).
HandlerGetVersionTreeId ==
    /\ call.op = "HasVersion"
    /\ IF call.ret = Found
       THEN /\ call' = [op |-> "GetVersionTreeId", arg |-> call.arg,
                        ret |-> GetVersionTreeId(ReqStore, call.arg)]
            /\ resp' = resp
       ELSE /\ call' = NoCall
            /\ resp' = DownloadTreeResponse(ConfigOf(Modules, ReqVars), ReqVars, call.arg,
                                            call.ret, call.ret, call.ret)
    /\ UNCHANGED <<repos, req, seen>>

\* treeId, err := mod.GetVersionTreeId(v) has returned: the handler answers
\* 404, or writes the headers and status 200 and calls
\* mod.WriteVersionTar(v, zw).
HandlerWriteVersionTar ==
    /\ call.op = "GetVersionTreeId"
    /\ call' = NoCall
    /\ resp' = DownloadTreeResponse(ConfigOf(Modules, ReqVars), ReqVars, call.arg,
                                    Found, call.ret, WriteVersionTar(ReqStore, call.arg))
    /\ UNCHANGED <<repos, req, seen>>

\* The response has been written and the exchange is over.
HandlerDone ==
    /\ resp # NoResponse
    /\ Finish

TagsChanged(refs) ==
    /\ seen.n < MaxMoves
    /\ repos' = [repos EXCEPT ![DirAws].refs = refs]
    /\ seen' = [seen EXCEPT !.n = seen.n + 1]
    /\ UNCHANGED <<req, resp, call>>

\* Another process points a tag at another object (git tag -f).
MoveTag ==
    \E i \in 1..Len(repos[DirAws].refs) :
        \E r \in {r \in ArchiveRefs : r.name = repos[DirAws].refs[i].name
                                        /\ r # repos[DirAws].refs[i]} :
            TagsChanged([repos[DirAws].refs EXCEPT ![i] = r])

\* Another process deletes a tag (git tag -d).
DeleteTag ==
    \E i \in 1..Len(repos[DirAws].refs) :
        TagsChanged(SubSeq(repos[DirAws].refs, 1, i - 1)
                       \o SubSeq(repos[DirAws].refs, i + 1, Len(repos[DirAws].refs)))

NextRace ==
    \/ HandlerHasVersion
    \/ HandlerGetVersionTreeId
    \/ HandlerWriteVersionTar
    \/ HandlerDone
    \/ MoveTag
    \/ DeleteTag

SpecRace == InitRace /\ [][NextRace]_vars

\* The archive route has answered 200 for a tree id whose snapshot can be
\* read in full.
StreamedFor(treeId) ==
    /\ ReqRoute = "archive"
    /\ resp.status = 200
    /\ TreeReadable(treeId)
    /\ NoReadFailure(treeId)

\* C23: whenever the archive route answers 200, the archive in the body is
\* that of the snapshot whose tree id the request supplied, also when tags
\* are moved or deleted while the request is served.
C23_ServedSnapshotIsTheOneChecked ==
    StreamedFor(StripTgz(ReqVars.treeId)) =>
        /\ Len(resp.body) = 1
        /\ ExactlyTheSnapshot(resp.body[1].gzip.written, StripTgz(ReqVars.treeId))

====
